---- MODULE Spec2Model ----
(***************************************************************************)
(* A model of class IsingModel (src/src/IsingModel.cpp): the configuration *)
(* setters, the fractal lattice builder (setup / addSpins /                *)
(* nextPermutation / QuickSort), the effective Hamiltonian, the exact      *)
(* partition function and the Monte Carlo loop with its three policies.    *)
(*                                                                         *)
(* Numbers.  The code computes in double.  The model keeps every quantity  *)
(* exact as an integer numerator over a fixed denominator:                 *)
(*   - a coordinate is a multiple of 1/CoordDen (the fractal scale the     *)
(*     code derives for an integer dimension is 1/hausdorffSlices);        *)
(*   - an energy is a multiple of 1/EDen, EDen = 2*CoordDen^2*kbT;         *)
(*   - the IEEE value NaN is the number NaN below.                         *)
(* The selectors hausdorffMethod and mcMethod are compared as strings.     *)
(***************************************************************************)
EXTENDS Integers, Sequences, FiniteSets, TLC

(* ------------------------------ bounds -------------------------------- *)
\* largest lattice depth passed to setLatticeDepth
MaxDepth == 2
\* setup() is explored while the spin array stays within this length
MaxSpins == 20
\* computePartitionFunction() is explored up to this many spins
MaxPFSpins == 8
\* runMonteCarlo() loops are explored up to this many steps
MaxMCSteps == 3

\* nextPermutation is explored on vectors up to this length
MaxTupleLen == 3
\* and up to this radix
MaxRadix == 4

(* --------------------------- program constants ------------------------ *)
hausdorffSlices == 2
DefaultMCSteps == 10000
NaN == -1000000

CoordDen == hausdorffSlices ^ MaxDepth

(* ------------------------- arguments of the calls --------------------- *)
ThreadArgs == {0, 2}
StepArgs == {0, MaxMCSteps}
DepthArgs == {0, MaxDepth}
DimArgs == {0, 2}
MethodArgs == {"SCALING", "SPLITTING"}
SigmaArgs == {0}
MCMethods == {"METROPOLIS", "HEATBATH", "HYBRID"}
CouplingArgs == {<<0, 2>>}
TemperatureArgs == {0 - 1, 2}

VARIABLES
  \* settings
  nThreads, nMCSteps, latticeDepth, hausdorffDim, hausdorffMethod,
  hausdorffScale, interactionSigma, mcMethod, H, J, kbT,
  \* lattice and observables
  spinArray, latticeDimensions, nSpins, magnetization, currentEffH,
  mcInfo, hybridInfo, hasBeenSetup,
  \* control: where the process is, and the locals of runMonteCarlo
  pc, iStep, avgAbsDeltaE, newAvgAbsDeltaE, nSpinsPerThread, popVector, iSpin,
  \* observations of the calls made
  call, Z, visit, adapt, handed,
  \* a generating loop over nextPermutation: the vector, the radix, and the
  \* tuples the loop body has run for
  tuple, radix, visited

settings == <<nThreads, nMCSteps, latticeDepth, hausdorffDim, hausdorffMethod,
              hausdorffScale, interactionSigma, mcMethod, H, J, kbT>>
lattice == <<spinArray, latticeDimensions, nSpins>>
observables == <<magnetization, currentEffH, mcInfo, hybridInfo>>
locals == <<iStep, avgAbsDeltaE, newAvgAbsDeltaE, nSpinsPerThread, popVector, iSpin>>
observed == <<Z, visit, adapt, handed>>
\* everything the class stores
model == <<settings, lattice, observables, hasBeenSetup>>
enumeration == <<tuple, radix, visited>>
vars == <<settings, lattice, observables, hasBeenSetup, pc, locals, call, observed,
          enumeration>>

(* ------------------------------ helpers ------------------------------- *)
Abs(x) == IF x < 0 THEN 0 - x ELSE x
Max(a, b) == IF a > b THEN a ELSE b
\* C++ integer division truncates toward zero
TruncDiv(a, b) == IF (a < 0) = (b < 0) THEN Abs(a) \div Abs(b) ELSE 0 - (Abs(a) \div Abs(b))
Range(s) == {s[k] : k \in 1..Len(s)}
RECURSIVE SumSeq(_)
SumSeq(s) == IF s = <<>> THEN 0 ELSE Head(s) + SumSeq(Tail(s))
RECURSIVE Product(_, _)
Product(s, from) == IF from > Len(s) THEN 1 ELSE s[from] * Product(s, from + 1)
Zeros(n) == [k \in 1..n |-> 0]

NoCall == [op |-> "none", arg |-> <<>>]
\* handed[i] counts how often index i occurs in the groups handed to hybridStep
\* in the current step (all groups of the step together)
NoneHanded == <<>>
Occurrences(seq, x) == Cardinality({k \in 1..Len(seq) : seq[k] = x})
Handed(h, spinFlips) ==
  LET n == Max(Len(h), 1 + Max(0, CHOOSE m \in Range(spinFlips) \cup {0} :
                                    \A x \in Range(spinFlips) : x <= m))
  IN [k \in 1..n |-> (IF k <= Len(h) THEN h[k] ELSE 0) + Occurrences(spinFlips, k - 1)]
NoResult == [valid |-> FALSE, terms |-> <<>>]

(* ------------------------------ construction -------------------------- *)
\* the member initialisers of the class; hausdorffScale=1/3 is an integer
\* division, so the stored scale is 0
Init ==
  /\ nThreads = 1
  /\ nMCSteps = DefaultMCSteps
  /\ latticeDepth = 1
  /\ hausdorffDim = 1
  /\ hausdorffMethod = "SCALING"
  /\ hausdorffScale = [num |-> 0, den |-> 1]
  /\ interactionSigma = 1
  /\ mcMethod \in MCMethods \cup {"unset"}
  /\ H = 1
  /\ J = 1
  /\ kbT = 1
  /\ spinArray = <<>>
  /\ latticeDimensions = <<>>
  /\ nSpins = 0
  /\ magnetization = 0
  /\ currentEffH = 0
  /\ mcInfo = <<>>
  /\ hybridInfo = <<>>
  /\ hasBeenSetup = FALSE
  /\ pc = "idle"
  /\ iStep = 0
  /\ avgAbsDeltaE = 0
  /\ newAvgAbsDeltaE = 0
  /\ nSpinsPerThread = 0
  /\ popVector = <<>>
  /\ iSpin = 0
  /\ call = NoCall
  /\ Z = NoResult
  /\ visit = [kind |-> "none"]
  /\ adapt = [kind |-> "none"]
  /\ handed = NoneHanded
  /\ tuple = <<>>
  /\ radix = 0
  /\ visited = <<>>

(* -------------------------------- setters ----------------------------- *)
\* a public call is made between runs, by the single caller thread; call
\* holds the call that is returning
Called(op, arg) ==
  /\ pc = "idle"
  /\ pc' = "returned"
  /\ call' = [op |-> op, arg |-> arg]
  /\ UNCHANGED <<locals, observed>>
  /\ UNCHANGED enumeration

\* the caller takes the result and is free to make the next call
Return ==
  /\ pc = "returned"
  /\ pc' = "idle"
  /\ call' = NoCall
  /\ Z' = NoResult
  /\ UNCHANGED <<model, locals, visit, adapt, handed>>
  /\ UNCHANGED enumeration

\* the guard of setNumThreads, which tests the stored count
ThreadsGuard(num) == nThreads < 1

setNumThreads(num) ==
  /\ Called("setNumThreads", <<num>>)
  /\ IF ThreadsGuard(num)
       THEN UNCHANGED <<nThreads, hasBeenSetup>>
       ELSE nThreads' = num /\ hasBeenSetup' = FALSE
  /\ UNCHANGED <<nMCSteps, latticeDepth, hausdorffDim, hausdorffMethod, hausdorffScale,
                 interactionSigma, mcMethod, H, J, kbT, lattice, observables>>

\* a guard that lets every step count through
StepsGuardOpen(num) == FALSE
StepsGuard(num) == num < 1

setNumMCSteps(num) ==
  /\ Called("setNumMCSteps", <<num>>)
  /\ IF StepsGuard(num)
       THEN UNCHANGED <<nMCSteps, hasBeenSetup>>
       ELSE nMCSteps' = num /\ hasBeenSetup' = FALSE
  /\ UNCHANGED <<nThreads, latticeDepth, hausdorffDim, hausdorffMethod, hausdorffScale,
                 interactionSigma, mcMethod, H, J, kbT, lattice, observables>>

setLatticeDepth(num) ==
  /\ Called("setLatticeDepth", <<num>>)
  /\ latticeDepth' = num
  /\ hasBeenSetup' = FALSE
  /\ UNCHANGED <<nThreads, nMCSteps, hausdorffDim, hausdorffMethod, hausdorffScale,
                 interactionSigma, mcMethod, H, J, kbT, lattice, observables>>

setInteractionSigma(sig) ==
  /\ Called("setInteractionSigma", <<sig>>)
  /\ interactionSigma' = sig
  /\ hasBeenSetup' = FALSE
  /\ UNCHANGED <<nThreads, nMCSteps, latticeDepth, hausdorffDim, hausdorffMethod,
                 hausdorffScale, mcMethod, H, J, kbT, lattice, observables>>

DimGuard(dim) == dim <= 0

setHausdorffDimension(dim) ==
  /\ Called("setHausdorffDimension", <<dim>>)
  /\ IF DimGuard(dim)
       THEN UNCHANGED <<hausdorffDim, hasBeenSetup>>
       ELSE hausdorffDim' = dim /\ hasBeenSetup' = FALSE
  /\ UNCHANGED <<nThreads, nMCSteps, latticeDepth, hausdorffMethod, hausdorffScale,
                 interactionSigma, mcMethod, H, J, kbT, lattice, observables>>

setHausdorffMethod(hmtd) ==
  /\ Called("setHausdorffMethod", <<hmtd>>)
  /\ hausdorffMethod' = hmtd
  /\ hasBeenSetup' = FALSE
  /\ UNCHANGED <<nThreads, nMCSteps, latticeDepth, hausdorffDim, hausdorffScale,
                 interactionSigma, mcMethod, H, J, kbT, lattice, observables>>

setMCMethod(mcmd) ==
  /\ Called("setMCMethod", <<mcmd>>)
  /\ mcMethod' = mcmd
  /\ hasBeenSetup' = FALSE
  /\ UNCHANGED <<nThreads, nMCSteps, latticeDepth, hausdorffDim, hausdorffMethod,
                 hausdorffScale, interactionSigma, H, J, kbT, lattice, observables>>

setCouplingConsts(tH, tJ) ==
  /\ Called("setCouplingConsts", <<tH, tJ>>)
  /\ H' = tH
  /\ J' = tJ
  /\ hasBeenSetup' = FALSE
  /\ UNCHANGED <<nThreads, nMCSteps, latticeDepth, hausdorffDim, hausdorffMethod,
                 hausdorffScale, interactionSigma, mcMethod, kbT, lattice, observables>>

\* a guard that lets every temperature through
TemperatureGuardOpen(tkbT) == FALSE
TemperatureGuard(tkbT) == tkbT < 0

setTemperature(tkbT) ==
  /\ Called("setTemperature", <<tkbT>>)
  /\ IF TemperatureGuard(tkbT)
       THEN UNCHANGED <<kbT, hasBeenSetup>>
       ELSE kbT' = tkbT /\ hasBeenSetup' = FALSE
  /\ UNCHANGED <<nThreads, nMCSteps, latticeDepth, hausdorffDim, hausdorffMethod,
                 hausdorffScale, interactionSigma, mcMethod, H, J, lattice, observables>>

(* ---------------------------- getMagnetization ------------------------ *)
RECURSIVE MagFrom(_, _)
MagFrom(arr, k) ==
  IF k > Len(arr) THEN 0
  ELSE (IF arr[k].active THEN arr[k].S ELSE 0) + MagFrom(arr, k + 1)

getMagnetization ==
  /\ Called("getMagnetization", <<>>)
  /\ magnetization' = MagFrom(spinArray, 1)
  /\ UNCHANGED <<settings, lattice, currentEffH, mcInfo, hybridInfo, hasBeenSetup>>

(* ----------------------------- nextPermutation ------------------------ *)
\* the loop of nextPermutation from position i (positions count from 1 here);
\* the end marker -1 is written into the first position
\* a generator whose carry leaves the digit at max-1 instead of zeroing it
RECURSIVE NextPermutationFromNoReset(_, _, _)
NextPermutationFromNoReset(tvN, i, max) ==
  IF i > Len(tvN) THEN tvN
  ELSE IF i = Len(tvN)
    THEN (IF tvN[i] = max - 1 THEN [tvN EXCEPT ![1] = 0 - 1]
                              ELSE [tvN EXCEPT ![i] = @ + 1])
  ELSE IF tvN[i] = max - 1
    THEN NextPermutationFromNoReset(tvN, i + 1, max)
  ELSE [tvN EXCEPT ![i] = @ + 1]

RECURSIVE NextPermutationFrom(_, _, _)
NextPermutationFrom(tvN, i, max) ==
  IF i > Len(tvN) THEN tvN
  ELSE IF i = Len(tvN)
    THEN (IF tvN[i] = max - 1 THEN [tvN EXCEPT ![1] = 0 - 1]
                              ELSE [tvN EXCEPT ![i] = @ + 1])
  ELSE IF tvN[i] = max - 1
    THEN NextPermutationFrom([tvN EXCEPT ![i] = 0], i + 1, max)
  ELSE [tvN EXCEPT ![i] = @ + 1]

nextPermutation(tvN, max) == NextPermutationFrom(tvN, 1, max)

(* --------------------------------- QuickSort -------------------------- *)
\* operator> of spin: lexicographic order of the coordinates (a comparison
\* with NaN is false)
RECURSIVE CoordsGT(_, _, _)
CoordsGT(a, b, k) ==
  IF k > Len(a) \/ k > Len(b) THEN Len(a) > Len(b)
  ELSE IF a[k] = NaN \/ b[k] = NaN THEN FALSE
  ELSE IF a[k] # b[k] THEN a[k] > b[k]
  ELSE CoordsGT(a, b, k + 1)

SpinGT(a, b) == CoordsGT(a.coords, b.coords, 1)

swap(vec, a, b) == [vec EXCEPT ![a] = vec[b], ![b] = vec[a]]

\* the for loop of QSPartition: j runs from low to high-1
RECURSIVE QSPartitionLoop(_, _, _, _, _)
QSPartitionLoop(vec, i, j, high, pivot) ==
  IF j > high - 1 THEN [vec |-> swap(vec, i + 1, high), pi |-> i + 1]
  ELSE IF ~SpinGT(vec[j], pivot)
    THEN QSPartitionLoop(swap(vec, i + 1, j), i + 1, j + 1, high, pivot)
  ELSE QSPartitionLoop(vec, i, j + 1, high, pivot)

QSPartition(vec, low, high) == QSPartitionLoop(vec, low - 1, low, high, vec[high])

RECURSIVE QuickSort(_, _, _)
QuickSort(vec, left, right) ==
  IF ~(left < right) THEN vec
  ELSE LET part == QSPartition(vec, left, right)
           pi == part.pi
       IN IF pi - left < right - pi
            THEN QuickSort(QuickSort(part.vec, left, pi - 1), pi + 1, right)
            ELSE QuickSort(QuickSort(part.vec, pi + 1, right), left, pi - 1)

(* --------------------------------- addSpins --------------------------- *)
\* pow(hausdorffScale, e) * delta, e >= 1, delta = 1, in coordinate units
ScalePow(scale, e) ==
  IF scale.num = 0 THEN 0 ELSE CoordDen \div (scale.den ^ e)

\* (1 + (1/hausdorffScale - hausdorffSlices)/(hausdorffSlices - 1)) * depthScale * depthVal;
\* with hausdorffScale = 0 the first factor is infinite and depthScale is 0
RECURSIVE CPosSum(_, _, _, _, _)
CPosSum(scale, vN, iDim, depth, iDepth) ==
  IF iDepth >= depth THEN 0
  ELSE IF scale.num = 0 THEN NaN
  ELSE (1 + (scale.den - hausdorffSlices) \div (hausdorffSlices - 1))
         * ScalePow(scale, depth - iDepth) * vN[iDim * depth + iDepth + 1]
       + CPosSum(scale, vN, iDim, depth, iDepth + 1)

\* the lower corner of the hypercube numbered vN (iDim counts from 0)
cPos(scale, vN, p, depth) == [k \in 1..p |-> CPosSum(scale, vN, k - 1, depth, 0)]

NewSpin(scale, cubePoints, pos, depth) ==
  [S |-> 1, active |-> TRUE,
   coords |-> [k \in 1..Len(cubePoints) |->
                 IF pos[k] = NaN THEN NaN
                 ELSE cubePoints[k] * ScalePow(scale, depth) + pos[k]]]

\* the inner loop: one spin per corner, until nextPermutation marks the end
RECURSIVE CubeLoop(_, _, _, _, _)
CubeLoop(scale, arr, cubePoints, pos, depth) ==
  IF cubePoints[1] = 0 - 1 THEN arr
  ELSE CubeLoop(scale, Append(arr, NewSpin(scale, cubePoints, pos, depth)),
                nextPermutation(cubePoints, 2), pos, depth)

\* the outer loop over the hypercube positions
RECURSIVE PositionLoop(_, _, _, _, _)
PositionLoop(scale, arr, vN, p, depth) ==
  IF vN[1] = 0 - 1 THEN arr
  ELSE PositionLoop(scale, CubeLoop(scale, arr, Zeros(p), cPos(scale, vN, p, depth), depth),
                    nextPermutation(vN, hausdorffSlices), p, depth)

\* vN.at(0) on an empty vN throws std::out_of_range, which nothing catches
AddSpinsThrows(p, depth) == p * depth = 0

\* the array addSpins leaves: the new spins appended, then the whole array sorted
addSpins(scale, arr, p, depth) ==
  LET all == PositionLoop(scale, arr, Zeros(p * depth), p, depth)
  IN QuickSort(all, 1, Len(all))

\* how many spins addSpins appends for p axes at this depth
AddedSpins(p, depth) == (2 ^ p) * (hausdorffSlices ^ (p * depth))

(* ---------------------------------- setup ----------------------------- *)
\* exp(-ceil(D)*log(slices)/D): for the integer dimensions of DimArgs, 1/slices
ScalingScale(dim) == [num |-> 1, den |-> hausdorffSlices]

\* hausdorffScale > 1/hausdorffSlices
ScaleTooLarge(scale) == scale.num * hausdorffSlices > scale.den

\* a shape whose entries lack the factor 2
PushedDimensionsHalf(dims, dim, depth) ==
  dims \o [k \in 1..dim |-> hausdorffSlices ^ depth]

\* ceil(hausdorffDim) entries of 2*pow(hausdorffSlices, latticeDepth) are pushed
PushedDimensions(dims, dim, depth) ==
  dims \o [k \in 1..dim |-> 2 * (hausdorffSlices ^ depth)]

setup ==
  /\ pc = "idle"
  /\ call' = [op |-> "setup", arg |-> <<>>]
  /\ LET scale == IF hausdorffMethod = "SCALING" THEN ScalingScale(hausdorffDim)
                  ELSE hausdorffScale
         dims == PushedDimensions(latticeDimensions, hausdorffDim, latticeDepth)
         p == Len(dims)
     IN /\ hausdorffScale' = scale
        /\ IF ScaleTooLarge(scale)
             THEN \* exit(EXIT_FAILURE)
                  /\ pc' = "exit"
                  /\ UNCHANGED <<lattice, hasBeenSetup>>
           ELSE IF AddSpinsThrows(p, latticeDepth)
             THEN \* terminate: the exception leaves addSpins and setup
                  /\ pc' = "terminated"
                  /\ latticeDimensions' = dims
                  /\ UNCHANGED <<spinArray, nSpins, hasBeenSetup>>
           ELSE /\ nSpins + AddedSpins(p, latticeDepth) <= MaxSpins
                /\ spinArray' = addSpins(scale, spinArray, p, latticeDepth)
                /\ nSpins' = nSpins + AddedSpins(p, latticeDepth)
                /\ latticeDimensions' = dims
                /\ hasBeenSetup' = TRUE
                /\ pc' = "returned"
  /\ UNCHANGED <<nThreads, nMCSteps, latticeDepth, hausdorffDim, hausdorffMethod,
                 interactionSigma, mcMethod, H, J, kbT, observables, locals, observed>>
  /\ UNCHANGED enumeration

(* ---------------------------------- reset ----------------------------- *)
reset ==
  /\ Called("reset", <<>>)
  /\ spinArray' = <<>>
  /\ hybridInfo' = <<>>
  /\ mcInfo' = <<>>
  /\ latticeDimensions' = <<>>
  /\ magnetization' = 0
  /\ currentEffH' = 0
  /\ nSpins' = 0
  /\ hasBeenSetup' = FALSE
  /\ UNCHANGED settings

(* ------------------------------ getDistanceSq ------------------------- *)
\* the squared distance, in units of 1/CoordDen^2; s2.coords.at(i) throws
\* when s2 has fewer coordinates than s1
xmin == 0
xmax == CoordDen

RECURSIVE DistanceSum(_, _, _)
DistanceSum(c1, c2, k) ==
  IF k > Len(c1) THEN 0
  ELSE LET rest == DistanceSum(c1, c2, k + 1)
       IN IF c1[k] = NaN \/ c2[k] = NaN \/ rest = NaN THEN NaN
          ELSE (c1[k] - c2[k]) * (c1[k] - c2[k]) + rest

DistanceThrows(sigma, s1, s2) == sigma # 0 /\ Len(s2.coords) < Len(s1.coords)

getDistanceSq(sigma, s1, s2) ==
  IF sigma = 0 THEN CoordDen * CoordDen
  ELSE LET distance == DistanceSum(s1.coords, s2.coords, 1)
       IN IF distance = 0 THEN CoordDen * CoordDen ELSE distance

\* the largest r with r*r <= n
ISqrt(n) == CHOOSE r \in 0..n : r * r <= n /\ (r + 1) * (r + 1) > n

\* pow(distance, interactionSigma/2) in units of 1/CoordDen^2
PowHalfSigma(distSq, sigma) ==
  IF distSq = NaN THEN NaN
  ELSE IF sigma = 0 THEN CoordDen * CoordDen
  ELSE IF sigma = 1 THEN CoordDen * ISqrt(distSq)
  ELSE distSq

(* ----------------------------- getEffHamiltonian ---------------------- *)
\* energies are numerators over EDen = 2 * CoordDen^2 * kbT
FieldUnit == 2 * CoordDen * CoordDen
FlipSign(flips, i) == IF i \in Range(flips) THEN 0 - 1 ELSE 1

\* one neighbour term of spin i (i counts from 0) along axis j (from 0), in the
\* direction dir = -1 (left) or 1 (right): a record [throw, nan, num]
NeighbourTerm(arr, dims, n, sigma, tJ, flips, i, j, dir) ==
  LET p == Len(dims)
      indexPM == dims[j + 1] ^ (p - 1 - j)
      s == arr[i + 1]
      inRange == IF dir < 0 THEN i > indexPM - 1 ELSE i + indexPM < n
      own == IF dir < 0 THEN xmin ELSE xmax
      other == IF dir < 0 THEN xmax ELSE xmin
      newIndex == i + dir * indexPM
      none == [throw |-> FALSE, nan |-> FALSE, num |-> 0]
      thrown == [throw |-> TRUE, nan |-> FALSE, num |-> 0]
  IN IF ~inRange THEN none
     ELSE IF j + 1 > Len(s.coords) THEN thrown
     ELSE IF ~(s.coords[j + 1] # own) THEN none
     ELSE IF j + 1 > Len(arr[newIndex + 1].coords) THEN thrown
     ELSE IF ~(arr[newIndex + 1].coords[j + 1] # other) THEN none
     ELSE IF ~arr[newIndex + 1].active THEN none
     ELSE IF DistanceThrows(sigma, s, arr[newIndex + 1]) THEN thrown
     ELSE LET w == PowHalfSigma(getDistanceSq(sigma, s, arr[newIndex + 1]), sigma)
          IN IF w = NaN THEN [throw |-> FALSE, nan |-> TRUE, num |-> 0]
             ELSE [throw |-> FALSE, nan |-> FALSE,
                   num |-> 0 - tJ * w * s.S * arr[newIndex + 1].S
                               * FlipSign(flips, i) * FlipSign(flips, newIndex)]

\* the sum of two partial results of the double loop
Plus(a, b) ==
  [throw |-> a.throw \/ b.throw, nan |-> a.nan \/ b.nan, num |-> a.num + b.num]

\* the inner loop over the axes j >= from, for spin i: left and right neighbour
RECURSIVE AxisLoop(_, _, _, _, _, _, _, _)
AxisLoop(arr, dims, n, sigma, tJ, flips, i, from) ==
  IF from >= Len(dims) THEN [throw |-> FALSE, nan |-> FALSE, num |-> 0]
  ELSE Plus(Plus(NeighbourTerm(arr, dims, n, sigma, tJ, flips, i, from, 0 - 1),
                 NeighbourTerm(arr, dims, n, sigma, tJ, flips, i, from, 1)),
            AxisLoop(arr, dims, n, sigma, tJ, flips, i, from + 1))

\* the outer loop over the spins i >= from: inactive spins are skipped, an
\* active spin adds its field term and its neighbour terms
RECURSIVE SpinLoop(_, _, _, _, _, _, _, _)
SpinLoop(arr, dims, n, sigma, tH, tJ, flips, from) ==
  IF from >= n THEN [throw |-> FALSE, nan |-> FALSE, num |-> 0]
  ELSE IF ~arr[from + 1].active
    THEN SpinLoop(arr, dims, n, sigma, tH, tJ, flips, from + 1)
  ELSE Plus(Plus([throw |-> FALSE, nan |-> FALSE,
                  num |-> 0 - FieldUnit * tH * arr[from + 1].S * FlipSign(flips, from)],
                 AxisLoop(arr, dims, n, sigma, tJ, flips, from, 0)),
            SpinLoop(arr, dims, n, sigma, tH, tJ, flips, from + 1))

\* whether an at() inside getEffHamiltonian throws std::out_of_range
EffHamiltonianThrowsOf(arr, dims, n, sigma) ==
  SpinLoop(arr, dims, n, sigma, 0, 0, <<>>, 0).throw

\* the value getEffHamiltonian(flips) returns when nothing throws: NaN or the
\* numerator of the energy
EffHamiltonianOf(arr, dims, n, sigma, tH, tJ, flips) ==
  LET sum == SpinLoop(arr, dims, n, sigma, tH, tJ, flips, 0)
  IN IF sum.nan THEN NaN ELSE sum.num

getEffHamiltonian(flips) ==
  EffHamiltonianOf(spinArray, latticeDimensions, nSpins, interactionSigma, H, J, flips)

EffHamiltonianThrows ==
  EffHamiltonianThrowsOf(spinArray, latticeDimensions, nSpins, interactionSigma)

(* -------------------------- computePartitionFunction ------------------ *)
\* the flip vectors whose exp(getEffHamiltonian(.)) the call adds to Z, in the
\* order of the additions; the sum returned is the sum over this sequence
\* the enumeration without the second recursive call (the one that leaves
\* spin start unflipped)
RECURSIVE PartitionTermsOneBranch(_, _, _)
PartitionTermsOneBranch(n, start, flips) ==
  IF start >= n THEN <<>>
  ELSE LET newflips == Append(flips, start)
       IN <<newflips>>
          \o PartitionTermsOneBranch(n, start + 1, newflips)
          \o (IF start = 0 THEN << <<>> >> ELSE <<>>)

RECURSIVE PartitionTerms(_, _, _)
PartitionTerms(n, start, flips) ==
  IF start >= n THEN <<>>
  ELSE LET newflips == Append(flips, start)
       IN <<newflips>>
          \o PartitionTerms(n, start + 1, newflips)
          \o PartitionTerms(n, start + 1, flips)
          \o (IF start = 0 THEN << <<>> >> ELSE <<>>)

\* whether computePartitionFunction tests the set-up flag before it computes
PartitionFunctionRefuses == FALSE

computePartitionFunction ==
  /\ pc = "idle"
  /\ nSpins <= MaxPFSpins
  /\ call' = [op |-> "computePartitionFunction", arg |-> <<hasBeenSetup>>]
  /\ IF PartitionFunctionRefuses /\ ~hasBeenSetup
       THEN pc' = "exit" /\ Z' = NoResult
     ELSE IF nSpins > 0 /\ EffHamiltonianThrows
       THEN pc' = "terminated" /\ Z' = NoResult
     ELSE /\ pc' = "returned"
          /\ Z' = [valid |-> TRUE, terms |-> PartitionTerms(nSpins, 0, <<>>)]
  /\ UNCHANGED <<model, locals, visit, adapt, handed>>
  /\ UNCHANGED enumeration

(* ------------------------------ runMonteCarlo ------------------------- *)
\* the denominator of the energy numerators
EDen == FieldUnit * kbT

\* 10^4 * exp(-m/8), m = 0..80
ExpTable ==
  <<10000, 8825, 7788, 6873, 6065, 5353, 4724, 4169, 3679, 3247, 2865, 2528, 2231,
    1969, 1738, 1534, 1353, 1194, 1054, 930, 821, 724, 639, 564, 498, 439, 388, 342,
    302, 266, 235, 208, 183, 162, 143, 126, 111, 98, 87, 76, 67, 59, 52, 46, 41, 36,
    32, 28, 25, 22, 19, 17, 15, 13, 12, 10, 9, 8, 7, 6, 6, 5, 4, 4, 3, 3, 3, 2, 2, 2,
    2, 1, 1, 1, 1, 1, 1, 1, 1, 1, 0>>

\* 10^4 * exp(-x) for the energy difference x = dnum/EDen >= 0
ExpNeg(dnum) ==
  LET m == (8 * dnum) \div EDen
  IN IF m + 1 > Len(ExpTable) THEN 0 ELSE ExpTable[m + 1]

\* the values rNG->Uniform() is drawn from, in units of 10^-4
UDraws == {1, 5000, 9999}

\* the entry of runMonteCarlo: the set-up test, then the locals before the loop.
\* nSpins/nThreads with nThreads = 0 is undefined: the run traps, or goes on
\* with a quotient of 0
RunRefuses == ~hasBeenSetup

runMonteCarlo ==
  /\ pc = "idle"
  /\ call' = [op |-> "runMonteCarlo", arg |-> <<hasBeenSetup>>]
  /\ IF RunRefuses
       THEN /\ pc' = "exit"
            /\ UNCHANGED <<currentEffH, locals>>
     ELSE IF EffHamiltonianThrows
       THEN /\ pc' = "terminated"
            /\ UNCHANGED <<currentEffH, locals>>
     ELSE /\ nMCSteps <= MaxMCSteps
          /\ Len(hybridInfo) + nMCSteps - 1 <= MaxMCSteps
          /\ currentEffH' = getEffHamiltonian(<<>>)
          /\ avgAbsDeltaE' = 0 - EDen
          /\ iStep' = 0
          /\ \/ /\ nThreads # 0
                /\ nSpinsPerThread' = TruncDiv(nSpins, nThreads)
                /\ pc' = "loop"
             \/ /\ nThreads = 0
                /\ \/ pc' = "terminated" /\ UNCHANGED nSpinsPerThread
                   \/ pc' = "loop" /\ nSpinsPerThread' = 0
          /\ UNCHANGED <<newAvgAbsDeltaE, popVector, iSpin>>
  /\ UNCHANGED <<settings, lattice, magnetization, mcInfo, hybridInfo, hasBeenSetup, observed>>
  /\ UNCHANGED enumeration

\* the group size the HYBRID branch settles on for this step
\* (nSpinsPerThread < 1 is raised to 1 first)
\* a halving test that leaves out the case of a trail that has not grown
HalvingConditionGrowthOnly(size, newAvg, avg) ==
  size > 1 /\ (newAvg > avg * 2 \/ newAvg = 0)

HalvingCondition(size, newAvg, avg) ==
  size > 1 /\ (newAvg > avg * 2 \/ newAvg <= avg \/ newAvg = 0)

DoublingCondition(size, mag, n) == size >= 1 /\ Abs(mag) < TruncDiv(n, 2)

AdaptedSize(size0, newAvg, avg, mag, n) ==
  LET size == IF size0 < 1 THEN 1 ELSE size0
  IN IF HalvingCondition(size, newAvg, avg) THEN Max(TruncDiv(size, 2), 1)
     ELSE IF DoublingCondition(size, mag, n) THEN Max(size * 2, 1)
     ELSE size

\* the head of one iteration of the step loop, up to the choice of the policy
StepBegin ==
  /\ pc = "loop"
  /\ IF ~(iStep < nMCSteps)
       THEN \* the loop is over: runMonteCarlo returns
            /\ pc' = "returned"
            /\ UNCHANGED <<mcInfo, locals, adapt>>
       ELSE /\ newAvgAbsDeltaE' = SumSeq(mcInfo)
            /\ mcInfo' = <<>>
            /\ iSpin' = 0
            /\ IF mcMethod = "METROPOLIS"
                 THEN pc' = "metropolis" /\ UNCHANGED <<nSpinsPerThread, popVector, adapt>>
               ELSE IF mcMethod = "HEATBATH"
                 THEN pc' = "heatbath" /\ UNCHANGED <<nSpinsPerThread, popVector, adapt>>
               ELSE IF mcMethod = "HYBRID"
                 THEN /\ popVector' = [k \in 1..nSpins |-> k - 1]
                      /\ nSpinsPerThread' = AdaptedSize(nSpinsPerThread, SumSeq(mcInfo),
                                                        avgAbsDeltaE, magnetization, nSpins)
                      /\ adapt' = [kind |-> "adapt", prev |-> nSpinsPerThread,
                                   newAvg |-> SumSeq(mcInfo), avg |-> avgAbsDeltaE,
                                   mag |-> magnetization, size |-> nSpinsPerThread',
                                   falling |-> /\ adapt.kind = "adapt" => adapt.falling
                                               /\ SumSeq(mcInfo) < avgAbsDeltaE]
                      /\ pc' = IF nSpins > 0 THEN "hybrid" ELSE "stepEnd"
               ELSE pc' = "stepEnd" /\ UNCHANGED <<nSpinsPerThread, popVector, adapt>>
            /\ UNCHANGED <<iStep, avgAbsDeltaE>>
  /\ UNCHANGED <<settings, lattice, magnetization, currentEffH, hybridInfo, hasBeenSetup,
                 call, Z, visit, handed>>
  /\ UNCHANGED enumeration

\* the tail of one iteration
StepEnd ==
  /\ pc = "stepEnd"
  /\ hybridInfo' = IF avgAbsDeltaE >= 0 THEN Append(hybridInfo, avgAbsDeltaE) ELSE hybridInfo
  /\ avgAbsDeltaE' = newAvgAbsDeltaE
  /\ iStep' = iStep + 1
  /\ pc' = "loop"
  /\ visit' = [kind |-> "none"]
  /\ handed' = NoneHanded
  /\ UNCHANGED <<settings, lattice, magnetization, currentEffH, mcInfo, hasBeenSetup,
                 newAvgAbsDeltaE, nSpinsPerThread, popVector, iSpin, call, Z, adapt>>
  /\ UNCHANGED enumeration

\* the spin array with every index of flips negated once per occurrence
RECURSIVE Flipped(_, _)
Flipped(arr, flips) ==
  IF flips = <<>> THEN arr
  ELSE Flipped([arr EXCEPT ![Head(flips) + 1].S = 0 - @], Tail(flips))

\* a rule that compares the draw with exp(-|tE - currentEffH|) in every case
MetropolisAcceptsByDraw(tE, cur, u) ==
  IF tE = NaN \/ cur = NaN THEN FALSE
  ELSE u < ExpNeg(Abs(tE - cur))

\* the Metropolis rule: tE - currentEffH < 0, or Uniform() < exp(currentEffH - tE)
MetropolisAccepts(tE, cur, u) ==
  IF tE = NaN \/ cur = NaN THEN FALSE
  ELSE IF tE - cur < 0 THEN TRUE
  ELSE u < ExpNeg(tE - cur)

\* the Heat Bath rule. exp(d) is infinite for d > 709.78 and zero for d < -745.13;
\* otherwise the acceptance exp(d)/(exp(-d)+exp(d)) is 1/(1+exp(-2d))
HeatBathAcceptance(tE, cur) ==
  LET d == cur - tE
  IN IF d >= 0 THEN (10000 * 10000) \div (10000 + ExpNeg(2 * d))
     ELSE (10000 * ExpNeg(0 - 2 * d)) \div (10000 + ExpNeg(0 - 2 * d))

HeatBathAccepts(tE, cur, u) ==
  IF tE = NaN \/ cur = NaN THEN FALSE
  ELSE IF (cur - tE) * 100 > 70978 * EDen THEN TRUE
  ELSE IF (cur - tE) * 100 < 0 - 74513 * EDen THEN FALSE
  ELSE u < HeatBathAcceptance(tE, cur)

\* the body of the spin loop of metropolisStep and heatBathStep for spin iSpin
SpinVisit(kind) ==
  /\ iSpin < nSpins
  /\ LET tE == getEffHamiltonian(<<iSpin>>)
         accepts(u) == IF kind = "metropolis" THEN MetropolisAccepts(tE, currentEffH, u)
                       ELSE HeatBathAccepts(tE, currentEffH, u)
     IN \E spinFlip \in {accepts(u) : u \in UDraws} :
          /\ visit' = [kind |-> kind, flips |-> <<iSpin>>, tE |-> tE,
                       cur |-> currentEffH, flipped |-> spinFlip]
          /\ IF spinFlip
               THEN /\ spinArray' = Flipped(spinArray, <<iSpin>>)
                    /\ mcInfo' = Append(mcInfo, Abs(tE - currentEffH))
                    /\ currentEffH' = tE
               ELSE UNCHANGED <<spinArray, mcInfo, currentEffH>>
  /\ iSpin' = iSpin + 1
  /\ pc' = IF iSpin + 1 < nSpins THEN pc ELSE "stepEnd"
  /\ UNCHANGED <<settings, latticeDimensions, nSpins, magnetization, hybridInfo,
                 hasBeenSetup, iStep, avgAbsDeltaE, newAvgAbsDeltaE, nSpinsPerThread,
                 popVector, call, Z, adapt, handed>>
  /\ UNCHANGED enumeration

metropolisStep ==
  /\ pc = "metropolis"
  /\ SpinVisit("metropolis")

heatBathStep ==
  /\ pc = "heatbath"
  /\ SpinVisit("heatbath")

\* the positions rNG->Integer(popVectorSize) is taken to return, counted from 1:
\* the first and the last position of the pool
IndexDraws(popVectorSize) == {1, popVectorSize}

\* every way the loop "index=rNG->Integer(popVectorSize); push; erase" can run
\* k times on pop: pairs <<indices pushed, what is left of pop>>
RemoveAt(seq, k) == SubSeq(seq, 1, k - 1) \o SubSeq(seq, k + 1, Len(seq))

RECURSIVE Draws(_, _)
Draws(pop, k) ==
  IF k = 0 THEN {<<<<>>, pop>>}
  ELSE UNION {{<<<<pop[index]>> \o d[1], d[2]>> : d \in Draws(RemoveAt(pop, index), k - 1)} :
              index \in IndexDraws(Len(pop))}

\* the vector spinFlips starts as std::vector<int>(nSpinsPerThread): that many
\* zeros, to which the drawn indices are pushed
InitialSpinFlips(size) == Zeros(size)

\* the pairs <<spinFlips, popVector afterwards>> one pass of the while loop can build
Groups(pop, size) ==
  IF size > Len(pop) THEN {<<pop, <<>>>>}
  ELSE {<<InitialSpinFlips(size) \o d[1], d[2]>> : d \in Draws(pop, size)}

\* one pass of the while loop of the HYBRID branch: a group is built and handed
\* to hybridStep with a fresh uniform number
hybridStep ==
  /\ pc = "hybrid"
  /\ Len(popVector) > 0
  /\ \E g \in Groups(popVector, nSpinsPerThread) :
       LET spinFlips == g[1]
           tE == getEffHamiltonian(spinFlips)
       IN \E spinFlip \in {MetropolisAccepts(tE, currentEffH, rng) : rng \in UDraws} :
            /\ popVector' = g[2]
            /\ handed' = Handed(handed, spinFlips)
            /\ visit' = [kind |-> "hybrid", flips |-> spinFlips, tE |-> tE,
                         cur |-> currentEffH, flipped |-> spinFlip]
            /\ IF spinFlip
                 THEN /\ spinArray' = Flipped(spinArray, spinFlips)
                      /\ mcInfo' = Append(mcInfo, Abs(tE - currentEffH))
                      /\ currentEffH' = tE
                 ELSE UNCHANGED <<spinArray, mcInfo, currentEffH>>
            /\ pc' = IF Len(g[2]) > 0 THEN "hybrid" ELSE "stepEnd"
  /\ UNCHANGED <<settings, latticeDimensions, nSpins, magnetization, hybridInfo,
                 hasBeenSetup, iStep, avgAbsDeltaE, newAvgAbsDeltaE, nSpinsPerThread,
                 iSpin, call, Z, adapt>>
  /\ UNCHANGED enumeration

(* --------------------------- the lifecycle ---------------------------- *)
Setter ==
  \/ \E num \in ThreadArgs : setNumThreads(num)
  \/ \E num \in StepArgs : setNumMCSteps(num)
  \/ \E num \in DepthArgs : setLatticeDepth(num)
  \/ \E dim \in DimArgs : setHausdorffDimension(dim)
  \/ \E hmtd \in MethodArgs : setHausdorffMethod(hmtd)
  \/ \E sig \in SigmaArgs : setInteractionSigma(sig)
  \/ \E mcmd \in MCMethods : setMCMethod(mcmd)
  \/ \E c \in CouplingArgs : setCouplingConsts(c[1], c[2])
  \/ \E tkbT \in TemperatureArgs : setTemperature(tkbT)

\* configuration, construction and the entry of the computations
Next ==
  \/ Setter
  \/ setup
  \/ reset
  \/ computePartitionFunction
  \/ runMonteCarlo
  \/ Return

Spec == Init /\ [][Next]_vars

(* --------------------------- one set-up model ------------------------- *)
\* the states in which runMonteCarlo() is called on the lattice setup() builds
\* for dimension 1 and depth 1 (four spins), for a choice of the other settings;
\* magnetization is 0, or the sum of the spins if getMagnetization() was called
MCThreads == {1, 4}
MCFields == {0, 1}
MCCouplings == {1}
MCSigmas == {2}
MCStepCounts == {3}

InitMC ==
  /\ nThreads \in MCThreads
  /\ nMCSteps \in MCStepCounts
  /\ latticeDepth = 1
  /\ hausdorffDim = 1
  /\ hausdorffMethod = "SCALING"
  /\ hausdorffScale = ScalingScale(1)
  /\ interactionSigma \in MCSigmas
  /\ mcMethod \in MCMethods
  /\ H \in MCFields
  /\ J \in MCCouplings
  /\ kbT = 1
  /\ latticeDimensions = PushedDimensions(<<>>, 1, 1)
  /\ spinArray = addSpins(ScalingScale(1), <<>>, 1, 1)
  /\ nSpins = AddedSpins(1, 1)
  /\ magnetization \in {0, MagFrom(addSpins(ScalingScale(1), <<>>, 1, 1), 1)}
  /\ currentEffH = 0
  /\ mcInfo = <<>>
  /\ hybridInfo = <<>>
  /\ hasBeenSetup = TRUE
  /\ pc = "idle"
  /\ iStep = 0
  /\ avgAbsDeltaE = 0
  /\ newAvgAbsDeltaE = 0
  /\ nSpinsPerThread = 0
  /\ popVector = <<>>
  /\ iSpin = 0
  /\ call = NoCall
  /\ Z = NoResult
  /\ visit = [kind |-> "none"]
  /\ adapt = [kind |-> "none"]
  /\ handed = NoneHanded
  /\ tuple = <<>>
  /\ radix = 0
  /\ visited = <<>>

\* the Monte Carlo run of a set-up model
NextMC ==
  \/ runMonteCarlo
  \/ StepBegin
  \/ metropolisStep
  \/ heatBathStep
  \/ hybridStep
  \/ StepEnd

SpecMC == InitMC /\ [][NextMC]_vars

(* --------------------- the adaptation on a given trail ---------------- *)
\* the step loop of a HYBRID run in which the spin updates of a step are left
\* out and the energy changes the step records are given: StepBegin adapts the
\* group size to the trail, TrailStep records the given changes, StepEnd
\* moves the trail on
TrailArgs == {0, 1, 2, 3, 5}
TrailInfos == {<<>>} \cup {<<x>> : x \in TrailArgs}

TrailStep ==
  /\ pc = "hybrid"
  /\ \E info \in TrailInfos : mcInfo' = info
  /\ popVector' = <<>>
  /\ pc' = "stepEnd"
  /\ UNCHANGED <<settings, lattice, magnetization, currentEffH, hybridInfo, hasBeenSetup,
                 iStep, avgAbsDeltaE, newAvgAbsDeltaE, nSpinsPerThread, iSpin,
                 call, observed>>
  /\ UNCHANGED enumeration

InitTrail ==
  /\ nThreads = 4
  /\ nMCSteps = MaxMCSteps + 1
  /\ latticeDepth = 1
  /\ hausdorffDim = 1
  /\ hausdorffMethod = "SCALING"
  /\ hausdorffScale = ScalingScale(1)
  /\ interactionSigma = 2
  /\ mcMethod = "HYBRID"
  /\ H = 1
  /\ J = 1
  /\ kbT = 1
  /\ latticeDimensions = PushedDimensions(<<>>, 1, 1)
  /\ spinArray = addSpins(ScalingScale(1), <<>>, 1, 1)
  /\ nSpins = AddedSpins(1, 1)
  /\ magnetization \in {0, MagFrom(addSpins(ScalingScale(1), <<>>, 1, 1), 1)}
  /\ currentEffH = getEffHamiltonian(<<>>)
  /\ mcInfo \in TrailInfos
  /\ hybridInfo = <<>>
  /\ hasBeenSetup = TRUE
  /\ pc = "loop"
  /\ iStep = 0
  /\ avgAbsDeltaE \in {0 - EDen} \cup TrailArgs
  /\ newAvgAbsDeltaE = 0
  /\ nSpinsPerThread \in {0, 1}
  /\ popVector = <<>>
  /\ iSpin = 0
  /\ call = [op |-> "runMonteCarlo", arg |-> <<TRUE>>]
  /\ Z = NoResult
  /\ visit = [kind |-> "none"]
  /\ adapt = [kind |-> "none"]
  /\ handed = NoneHanded
  /\ tuple = <<>>
  /\ radix = 0
  /\ visited = <<>>

NextTrail ==
  \/ StepBegin
  \/ TrailStep
  \/ StepEnd

SpecTrail == InitTrail /\ [][NextTrail]_vars

(* ----------------------- the generating loop alone -------------------- *)
\* the loop "for(fill(vN, 0); vN.at(0) != -1; nextPermutation(vN, max))" of
\* addSpins, for a vector of any length up to MaxTupleLen and any radix up to
\* MaxRadix; visited lists the tuples the loop body runs for
InitPerm ==
  /\ nThreads = 1
  /\ nMCSteps = DefaultMCSteps
  /\ latticeDepth = 1
  /\ hausdorffDim = 1
  /\ hausdorffMethod = "SCALING"
  /\ hausdorffScale = [num |-> 0, den |-> 1]
  /\ interactionSigma = 1
  /\ mcMethod = "unset"
  /\ H = 1
  /\ J = 1
  /\ kbT = 1
  /\ spinArray = <<>>
  /\ latticeDimensions = <<>>
  /\ nSpins = 0
  /\ magnetization = 0
  /\ currentEffH = 0
  /\ mcInfo = <<>>
  /\ hybridInfo = <<>>
  /\ hasBeenSetup = FALSE
  /\ pc = "enumerate"
  /\ iStep = 0
  /\ avgAbsDeltaE = 0
  /\ newAvgAbsDeltaE = 0
  /\ nSpinsPerThread = 0
  /\ popVector = <<>>
  /\ iSpin = 0
  /\ call = NoCall
  /\ Z = NoResult
  /\ visit = [kind |-> "none"]
  /\ adapt = [kind |-> "none"]
  /\ handed = NoneHanded
  /\ radix \in 1..MaxRadix
  /\ \E n \in 1..MaxTupleLen : tuple = Zeros(n) /\ visited = <<Zeros(n)>>

\* one pass of the loop head: the test, then nextPermutation; the body runs for
\* the new tuple unless it carries the end marker
NextTuple ==
  /\ pc = "enumerate"
  /\ tuple[1] # 0 - 1
  /\ tuple' = nextPermutation(tuple, radix)
  /\ visited' = IF tuple'[1] # 0 - 1 THEN Append(visited, tuple') ELSE visited
  /\ UNCHANGED <<model, pc, locals, call, observed, radix>>

NextPerm == NextTuple

SpecPerm == InitPerm /\ [][NextPerm]_vars

(* ============================ the properties =========================== *)
SetterOps ==
  {"setNumThreads", "setNumMCSteps", "setLatticeDepth", "setHausdorffDimension",
   "setHausdorffMethod", "setInteractionSigma", "setMCMethod", "setCouplingConsts",
   "setTemperature"}

\* whether setter call c, made in the current state, is turned away by the
\* setter's first line
Rejected(c) ==
  \/ c.op = "setNumThreads" /\ nThreads < 1
  \/ c.op = "setNumMCSteps" /\ c.arg[1] < 1
  \/ c.op = "setHausdorffDimension" /\ c.arg[1] <= 0
  \/ c.op = "setTemperature" /\ c.arg[1] < 0

(* ---------------------------------- C1 -------------------------------- *)
\* C1 as stated: whenever a call of a configuration setter returns, whatever
\* its argument, the set-up flag is false.
C1_EverySetterClearsFlag ==
  (pc = "returned" /\ call.op \in SetterOps) => ~hasBeenSetup

\* C1 as the code has it: a setter call that passes the setter's guard leaves
\* the set-up flag false; a call the guard turns away (setNumMCSteps below 1,
\* setHausdorffDimension at or below 0, setTemperature below 0, setNumThreads
\* while the stored count is below 1) leaves the flag as it was; and
\* runMonteCarlo() is refused exactly when the flag is false.
C1_AcceptedSetterClearsFlag ==
  [][/\ (pc = "idle" /\ call'.op \in SetterOps)
          => (hasBeenSetup' = (hasBeenSetup /\ Rejected(call')))
     /\ (pc = "idle" /\ call'.op = "runMonteCarlo")
          => ((pc' = "exit") <=> ~hasBeenSetup)]_vars

\* a setter call was turned away on a set-up model, which is still set up
C1_RejectedOnSetUpModel ==
  /\ pc = "returned"
  /\ call = [op |-> "setNumMCSteps", arg |-> <<0>>]
  /\ hasBeenSetup
  /\ nSpins > 0

(* ---------------------------------- C2 -------------------------------- *)
\* C2: a call of runMonteCarlo() or computePartitionFunction() made while the
\* set-up flag is false ends in the fatal error outcome and returns no
\* partition-function value.
C2_NotSetUpIsFatal ==
  (call.op \in {"runMonteCarlo", "computePartitionFunction"} /\ call.arg = <<FALSE>>)
    => (pc = "exit" /\ ~Z.valid)

(* ---------------------------------- C3 -------------------------------- *)
\* C3: on a set-up model with N spins, computePartitionFunction(0, {}) adds
\* one term for every subset F of {0..N-1}, exactly once each: 2^N terms, no
\* index twice in a term, the empty set included, no subset repeated or skipped.
C3_EverySubsetOnce ==
  (pc = "returned" /\ call = [op |-> "computePartitionFunction", arg |-> <<TRUE>>])
    => /\ Z.valid
       /\ Len(Z.terms) = 2 ^ nSpins
       /\ \A k \in 1..Len(Z.terms) :
            /\ Range(Z.terms[k]) \subseteq 0..(nSpins - 1)
            /\ Cardinality(Range(Z.terms[k])) = Len(Z.terms[k])
       /\ \A F \in SUBSET (0..(nSpins - 1)) :
            Cardinality({k \in 1..Len(Z.terms) : Range(Z.terms[k]) = F}) = 1

\* the partition function of a set-up lattice of eight spins was computed
C3_EightSpinsEnumerated ==
  /\ pc = "returned"
  /\ call = [op |-> "computePartitionFunction", arg |-> <<TRUE>>]
  /\ Z.valid
  /\ nSpins = 8

(* ---------------------------------- C4 -------------------------------- *)
\* C4: at the end of every HYBRID step the groups handed to hybridStep in that
\* step partition the index set: every index of {0..nSpins-1} occurs exactly
\* once in all the groups together, and no other index occurs.
C4_GroupsPartitionIndexSet ==
  (pc = "stepEnd" /\ mcMethod = "HYBRID") => handed = [k \in 1..nSpins |-> 1]

(* ---------------------------------- C5 -------------------------------- *)
\* the size a step settles on when its trail has fallen, from the size before
FallenSize(prev, mag, n) ==
  IF prev > 1 THEN Max(prev \div 2, 1)
  ELSE IF Abs(mag) < n \div 2 THEN 2
  ELSE 1

C6_HalvedOrKeptAtOne ==
  (/\ adapt.kind = "adapt"
   /\ \/ adapt.newAvg > 2 * adapt.avg
      \/ adapt.newAvg < adapt.avg
      \/ adapt.newAvg = 0)
    => adapt.size = Max(1, Max(adapt.prev, 1) \div 2)

(* ---------------------------------- C7 -------------------------------- *)
\* C7 as stated: in metropolisStep and in heatBathStep, a spin visited with a
\* trial energy strictly below the cached energy is flipped.
C7_LowerEnergyAlwaysAccepted ==
  (/\ visit.kind \in {"metropolis", "heatbath"}
   /\ visit.tE # NaN /\ visit.cur # NaN
   /\ visit.tE < visit.cur)
    => visit.flipped

\* C7 as the code has it: under the Metropolis rule (metropolisStep, and
\* hybridStep for a group) a trial energy strictly below the cached energy is
\* always accepted; heatBathStep draws against exp(d)/(exp(-d)+exp(d)).
C7_MetropolisAcceptsLowerEnergy ==
  (/\ visit.kind \in {"metropolis", "hybrid"}
   /\ visit.tE # NaN /\ visit.cur # NaN
   /\ visit.tE < visit.cur)
    => visit.flipped

\* metropolisStep visited a spin whose trial energy was lower, and flipped it
C7_MetropolisLowerEnergyVisited ==
  /\ visit.kind = "metropolis"
  /\ visit.tE < visit.cur
  /\ visit.flipped

(* ---------------------------------- C8 -------------------------------- *)
\* C8: a setup() call on an empty model with lattice depth 0 and D axes
\* completes and leaves exactly 2^D spins, all active with value +1, at the
\* corners of the unit hypercube.
C8_DepthZeroGivesCorners ==
  (/\ call.op = "setup"
   /\ latticeDepth = 0
   /\ Len(latticeDimensions) = hausdorffDim)
    => /\ pc = "returned"
       /\ hasBeenSetup
       /\ nSpins = 2 ^ hausdorffDim
       /\ Len(spinArray) = nSpins
       /\ \A k \in 1..Len(spinArray) : spinArray[k].active /\ spinArray[k].S = 1
       /\ {spinArray[k].coords : k \in 1..Len(spinArray)}
            = [1..hausdorffDim -> {0, CoordDen}]

(* ---------------------------------- C9 -------------------------------- *)
\* C9: a setup() call that returns on a freshly constructed or reset model
\* (no shape entries, no spins) with D axes and depth d >= 1 leaves a shape of
\* exactly D entries 2*b^d and exactly 2^D * b^(D*d) spins, all active with
\* value +1; the spin count is the product of the shape entries.
C9_ShapeAndSpinCount ==
  [][(/\ pc = "idle" /\ pc' = "returned" /\ call'.op = "setup"
      /\ latticeDimensions = <<>> /\ spinArray = <<>> /\ nSpins = 0
      /\ latticeDepth >= 1)
       => /\ latticeDimensions'
               = [k \in 1..hausdorffDim |-> 2 * (hausdorffSlices ^ latticeDepth)]
          /\ nSpins' = (2 ^ hausdorffDim) * (hausdorffSlices ^ (hausdorffDim * latticeDepth))
          /\ Len(spinArray') = nSpins'
          /\ \A k \in 1..Len(spinArray') : spinArray'[k].active /\ spinArray'[k].S = 1
          /\ nSpins' = Product(latticeDimensions', 1)]_vars

\* setup() returned on an empty model with two axes: shape <<4, 4>>, 16 spins
C9_TwoAxesBuilt ==
  /\ pc = "returned"
  /\ call.op = "setup"
  /\ hausdorffDim = 2
  /\ latticeDepth = 1
  /\ latticeDimensions = <<4, 4>>
  /\ nSpins = 16

(* ---------------------------------- C10 ------------------------------- *)
\* whether c is one of the three setter calls of C10 with an invalid value
InvalidValue(c) ==
  \/ c.op = "setNumMCSteps" /\ c.arg[1] < 1
  \/ c.op = "setHausdorffDimension" /\ c.arg[1] <= 0
  \/ c.op = "setTemperature" /\ c.arg[1] < 0

\* C10: setHausdorffDimension with dim <= 0, setTemperature with a negative
\* value and setNumMCSteps with num < 1 are no-ops: the stored parameter and
\* everything else the model stores, the set-up flag included, stay as they were.
C10_InvalidValueIsNoOp ==
  [][(pc = "idle" /\ call'.op \in SetterOps /\ InvalidValue(call'))
       => UNCHANGED model]_vars

\* setTemperature(-1) returned on a set-up model whose temperature had been set to 2
C10_NegativeTemperatureIgnored ==
  /\ pc = "returned"
  /\ call = [op |-> "setTemperature", arg |-> <<0 - 1>>]
  /\ kbT = 2
  /\ hasBeenSetup

(* ---------------------------------- C11 ------------------------------- *)
\* C11: during runMonteCarlo(), after every accept-or-reject decision of
\* metropolisStep, heatBathStep and hybridStep, the cached energy currentEffH
\* equals getEffHamiltonian() of the empty flip set on the spin array as stored.
C11_CachedEnergyIsRecomputed ==
  (visit.kind \in {"metropolis", "heatbath", "hybrid"})
    => currentEffH = getEffHamiltonian(<<>>)

(* ---------------------------------- C12 ------------------------------- *)
\* C12: in every HYBRID step, the magnetization the doubling condition tested
\* equals the sum of the active spin values of the spin array at the start of
\* the step (the state in which the size is settled and no group is drawn yet).
C12_TestedMagnetizationIsSpinSum ==
  (/\ pc = "hybrid"
   /\ adapt.kind = "adapt"
   /\ Len(popVector) = nSpins)
    => adapt.mag = MagFrom(spinArray, 1)

(* ---------------------------------- C13 ------------------------------- *)
\* C13: starting from the all-zero tuple of length n >= 1, the loop over
\* nextPermutation with radix max >= 1 runs its body for tuples over
\* {0..max-1} only, for no tuple twice, and the end marker (first element -1)
\* appears exactly when the body has run for all max^n tuples, the last of
\* them being the tuple with every digit max-1.
C13_EveryTupleOnce ==
  (pc = "enumerate")
    => LET n == Len(tuple)
           last == visited[Len(visited)]
       IN /\ Range(visited) \subseteq [1..n -> 0..(radix - 1)]
          /\ Cardinality(Range(visited)) = Len(visited)
          /\ (tuple[1] = 0 - 1) <=> (Len(visited) = radix ^ n /\ tuple # last)
          /\ (tuple[1] = 0 - 1) => last = [k \in 1..n |-> radix - 1]
          /\ (tuple[1] # 0 - 1) => last = tuple

\* the loop over tuples of length 3 with radix 3 has ended after 27 tuples
C13_TwentySevenTuples ==
  /\ pc = "enumerate"
  /\ Len(tuple) = 3
  /\ radix = 3
  /\ tuple[1] = 0 - 1
  /\ Len(visited) = 27

(* ---------------------------------- C14 ------------------------------- *)
\* C14: whatever setNumThreads calls were made, the stored thread count is at
\* least 1 (so runMonteCarlo() never divides nSpins by zero).
C14_ThreadCountPositive == nThreads >= 1

(* ---------------------------------- C15 ------------------------------- *)
\* C15: whenever setup() returns, with or without a reset() since the last
\* build, the lattice shape and the spin array are those of a single setup()
\* on an empty model with the current parameters; nothing of an earlier build
\* is kept.
C15_SetupBuildsSingleLattice ==
  (pc = "returned" /\ call.op = "setup")
    => /\ latticeDimensions = PushedDimensions(<<>>, hausdorffDim, latticeDepth)
       /\ nSpins = AddedSpins(hausdorffDim, latticeDepth)
       /\ spinArray = addSpins(hausdorffScale, <<>>, hausdorffDim, latticeDepth)

====
